---- MODULE Spec2Model ----
(***************************************************************************)
(* TowneCodex generator engine (townecodex/generation/generator_engine.py) *)
(* as a state machine: run_generator threads used_ids and the running      *)
(* results through _generate_bucket for each bucket of a GeneratorConfig,  *)
(* drawing from the module-global generator of Python's random module.     *)
(*                                                                         *)
(* Optional values (Optional[int], Optional[bool], Optional[List]) are     *)
(* sequences: <<>> is None and <<v>> is the value v.  Strings that the     *)
(* engine inspects (Entry.type, type_contains_any) are sequences of        *)
(* one-character strings.                                                  *)
(***************************************************************************)
EXTENDS Integers, Sequences, FiniteSets, TLC

None == <<>>

Some(v) == <<v>>

\* Python's `o or 0` for an Optional[int]
OrZero(o) == IF o = <<>> THEN 0 ELSE o[1]

Max2(a, b) == IF a >= b THEN a ELSE b

Min2(a, b) == IF a <= b THEN a ELSE b

Range(s) == {s[i] : i \in DOMAIN s}

(***************************************************************************)
(* Bounds of the model                                                     *)
(***************************************************************************)
\* buckets per GeneratorConfig
MaxBuckets == 2

\* size of the state space of the modelled pseudo random generator
RngMod == 32

(***************************************************************************)
(* Strings: str.lower() and the `in` substring test                        *)
(***************************************************************************)
LowerChar(ch) ==
    CASE ch = "W" -> "w"
      [] ch = "A" -> "a"
      [] ch = "N" -> "n"
      [] ch = "D" -> "d"
      [] ch = "R" -> "r"
      [] ch = "I" -> "i"
      [] ch = "G" -> "g"
      [] OTHER -> ch

\* a lower() that keeps the case of every character
LowerKeep(s) == s

\* str.lower()
Lower(s) == [i \in DOMAIN s |-> LowerChar(s[i])]

\* Python `sub in s`
IsSubstring(sub, s) ==
    \E i \in 0..(Len(s) - Len(sub)) : SubSeq(s, i + 1, i + Len(sub)) = sub

(***************************************************************************)
(* The catalog: rows of the entries table                                  *)
(***************************************************************************)
Entry(id, name, type, rarity, att, value) ==
    [id |-> id, name |-> name, type |-> type, rarity |-> rarity,
     attunement_required |-> att, value |-> value]

\* name is the collation rank of Entry.name (search sorts by it)
Catalog ==
    { Entry(1, 3, <<"W","a","n","d">>, "Common", FALSE, Some(10)),
      Entry(2, 1, <<"R","i","n","g">>, "Common", TRUE,  Some(20)),
      Entry(3, 4, <<"W","A","N","D">>, "Rare",   FALSE, Some(30)),
      Entry(4, 2, <<"R","i","n","g">>, "Common", FALSE, None) }

\* int(e.value or 0)
val(e) == OrZero(e.value)

RECURSIVE SumVal(_)
SumVal(es) == IF es = <<>> THEN 0 ELSE val(Head(es)) + SumVal(Tail(es))

\* _current_totals: (count, value_sum)
current_totals(entries) == <<Len(entries), SumVal(entries)>>

\* list.sort(key=val) / sorted(...): stable, ascending by value
RECURSIVE InsertByVal(_, _)
InsertByVal(e, s) ==
    IF s = <<>> THEN <<e>>
    ELSE IF val(e) < val(Head(s)) THEN <<e>> \o s
    ELSE <<Head(s)>> \o InsertByVal(e, Tail(s))

RECURSIVE SortByVal(_)
SortByVal(s) ==
    IF s = <<>> THEN <<>>
    ELSE InsertByVal(s[Len(s)], SortByVal(SubSeq(s, 1, Len(s) - 1)))

\* ORDER BY entries.name ASC over a set of rows
RECURSIVE OrderByName(_)
OrderByName(rows) ==
    IF rows = {} THEN <<>>
    ELSE LET first == CHOOSE e \in rows : \A o \in rows : e.name <= o.name
         IN  <<first>> \o OrderByName(rows \ {first})

\* [x for x in s if P(x)]
RECURSIVE Filter(_, _)
Filter(s, keep) ==
    IF s = <<>> THEN <<>>
    ELSE IF Head(s) \in keep THEN <<Head(s)>> \o Filter(Tail(s), keep)
    ELSE Filter(Tail(s), keep)

(***************************************************************************)
(* repos.py: EntryFilters and EntryRepository.search                       *)
(***************************************************************************)
\* fields of the EntryFilters dataclass in repos.py
ReposFilterFields ==
    {"name_contains", "type_contains", "rarity_in", "attunement_required",
     "text", "general_type_in", "specific_tag"}

\* fields of the EntryFilters that tests/test_repos.py, query.py and cli.py build
LegacyFilterFields ==
    {"name_contains", "type_equals", "rarity_in", "attunement_required", "text"}

\* page size the engine asks for
SearchSize == 500

\* search that drops the attunement condition
searchAnyAttunement(rarity_in, attunement_required) ==
    LET byRarity == IF rarity_in = None \/ rarity_in = Some(<<>>) THEN Catalog
                    ELSE {e \in Catalog : e.rarity \in Range(rarity_in[1])}
    IN  OrderByName(byRarity)

\* search(filters, page=1, size=500, sort="name")
search(rarity_in, attunement_required) ==
    LET byRarity == IF rarity_in = None \/ rarity_in = Some(<<>>) THEN Catalog
                    ELSE {e \in Catalog : e.rarity \in Range(rarity_in[1])}
        byAtt    == IF attunement_required = None THEN byRarity
                    ELSE {e \in byRarity :
                            e.attunement_required = attunement_required[1]}
        ordered  == OrderByName(byAtt)
    IN  SubSeq(ordered, 1, Min2(SearchSize, Len(ordered)))

(***************************************************************************)
(* The module-global generator of Python's random module.  A generator     *)
(* seeded from OS entropy is None: any draw can come out of it.  After     *)
(* random.seed(s) its state is <<n>> and every draw is a function of it.   *)
(***************************************************************************)
NextRng(n) == (n * 5 + 3) % RngMod

\* random.seed() with the argument left out: seeded from OS entropy
SeedFromEntropy(s) == None

\* random.seed(s)
SeedRng(s) == Some(s % RngMod)

\* _randbelow(n): the possible <<draw, generator state after it>>
RandBelow(r, n) ==
    IF r = None THEN {<<j, None>> : j \in 0..(n - 1)}
    ELSE {<<(NextRng(r[1]) \div 4) % n, Some(NextRng(r[1]))>>}

\* random.randrange(a, b): the upper end left out
RandRange(r, a, b) == {<<a + d[1], d[2]>> : d \in RandBelow(r, b - a)}

\* random.randint(a, b)
RandInt(r, a, b) == {<<a + d[1], d[2]>> : d \in RandBelow(r, b - a + 1)}

\* random.sample(population, k): the pool algorithm
RECURSIVE Sample(_, _, _)
Sample(r, pool, k) ==
    IF k = 0 THEN {<<<<>>, r>>}
    ELSE UNION {
           LET n     == Len(pool)
               j     == d[1] + 1
               moved == [pool EXCEPT ![j] = pool[n]]
           IN  {<<<<pool[j]>> \o rest[1], rest[2]>> :
                  rest \in Sample(d[2], SubSeq(moved, 1, n - 1), k - 1)}
           : d \in RandBelow(r, Len(pool)) }

(***************************************************************************)
(* generation/schema.py: BucketConfig and GeneratorConfig                  *)
(***************************************************************************)
BucketConfig(name, min_count, max_count, rarities, types, min_value, max_value, att, prefer_unique) ==
    [name |-> name, min_count |-> min_count, max_count |-> max_count,
     allowed_rarities |-> rarities, type_contains_any |-> types,
     min_value |-> min_value, max_value |-> max_value,
     attunement_required |-> att, prefer_unique |-> prefer_unique]

GeneratorConfig(min_items, max_items, min_total_value, max_total_value, global_prefer_unique, random_seed, buckets) ==
    [min_items |-> min_items, max_items |-> max_items,
     min_total_value |-> min_total_value,
     max_total_value |-> max_total_value,
     global_prefer_unique |-> global_prefer_unique,
     random_seed |-> random_seed, buckets |-> buckets]

(***************************************************************************)
(* generator_engine.py: _generate_bucket                                   *)
(***************************************************************************)
\* min_count taken as given, without the clamp at 0
BucketMinCountRaw(bucket) == OrZero(bucket.min_count)

\* min_count = max(0, int(bucket.min_count or 0))
BucketMinCount(bucket) == Max2(0, OrZero(bucket.min_count))

\* max_count: None when raw_max is None or int(raw_max) <= 0
BucketMaxCount(bucket) ==
    IF bucket.max_count = None \/ bucket.max_count[1] <= 0 THEN None
    ELSE bucket.max_count

\* remaining_item_slots taken as max_items, whatever was picked before
RemainingItemSlotsWhole(config, current_results) == config.max_items

\* remaining_item_slots = max(0, max_items - current_count), None without cap
RemainingItemSlots(config, current_results) ==
    IF config.max_items = None THEN None
    ELSE Some(Max2(0, config.max_items[1] - current_totals(current_results)[1]))

\* remaining_budget = max(0, max_total_value - current_value), None without cap
RemainingBudget(config, current_results) ==
    IF config.max_total_value = None THEN None
    ELSE Some(Max2(0, config.max_total_value[1]
                        - current_totals(current_results)[2]))

\* keyword arguments of the EntryFilters(...) call
EngineFilterKwargs ==
    {"name_contains", "type_equals", "rarity_in", "attunement_required", "text"}

\* matches_bucket that lets an entry of unknown value through the value bounds
matches_bucket_unknown_value(bucket, e) ==
    /\ \/ bucket.type_contains_any = None
       \/ bucket.type_contains_any = Some(<<>>)
       \/ \E i \in DOMAIN bucket.type_contains_any[1] :
            IsSubstring(Lower(bucket.type_contains_any[1][i]), Lower(e.type))
    /\ \/ e.value = None
       \/ /\ bucket.min_value = None \/ e.value[1] >= bucket.min_value[1]
          /\ bucket.max_value = None \/ e.value[1] <= bucket.max_value[1]

\* matches_bucket(e)
matches_bucket(bucket, e) ==
    /\ \/ bucket.type_contains_any = None
       \/ bucket.type_contains_any = Some(<<>>)
       \/ \E i \in DOMAIN bucket.type_contains_any[1] :
            IsSubstring(Lower(bucket.type_contains_any[1][i]), Lower(e.type))
    /\ IF e.value = None
       THEN bucket.min_value = None /\ bucket.max_value = None
       ELSE /\ bucket.min_value = None \/ e.value[1] >= bucket.min_value[1]
            /\ bucket.max_value = None \/ e.value[1] <= bucket.max_value[1]

\* the refined candidates with the uniqueness step left out
FilteredPoolKeepUsed(config, bucket, used_ids) ==
    LET candidates == search(bucket.allowed_rarities, bucket.attunement_required)
    IN  Filter(candidates, {e \in Range(candidates) : matches_bucket(bucket, e)})

\* filtered: the refined candidates, minus used ids when uniqueness applies
FilteredPool(config, bucket, used_ids) ==
    LET candidates == search(bucket.allowed_rarities, bucket.attunement_required)
        refined == Filter(candidates,
                          {e \in Range(candidates) : matches_bucket(bucket, e)})
    IN  IF config.global_prefer_unique \/ bucket.prefer_unique
        THEN Filter(refined, {e \in Range(refined) : e.id \notin used_ids})
        ELSE refined

\* can_take with the budget test made before the value is added
RECURSIVE CanTakeLate(_, _, _)
CanTakeLate(cheapest_values, running, remaining_budget) ==
    IF cheapest_values = <<>> THEN 0
    ELSE IF running > remaining_budget THEN 0
    ELSE 1 + CanTakeLate(Tail(cheapest_values),
                         running + val(Head(cheapest_values)), remaining_budget)

\* can_take: length of the cheapest-first prefix that fits the budget
RECURSIVE CanTake(_, _, _)
CanTake(cheapest_values, running, remaining_budget) ==
    IF cheapest_values = <<>> THEN 0
    ELSE IF running + val(Head(cheapest_values)) > remaining_budget THEN 0
    ELSE 1 + CanTake(Tail(cheapest_values),
                     running + val(Head(cheapest_values)), remaining_budget)

\* a budget_cap that counts the whole pool as affordable
BudgetCapAll(filtered, remaining_budget) == Len(filtered)

BudgetCap(filtered, remaining_budget) ==
    CanTake(SortByVal(filtered), 0, remaining_budget)

\* feasible_max that takes max_count without comparing it to available
FeasibleMaxNoAvailable(filtered, max_count, remaining_item_slots, remaining_budget) ==
    LET b == IF max_count = None THEN Len(filtered) ELSE max_count[1]
        c == IF remaining_item_slots = None THEN b
             ELSE Min2(b, remaining_item_slots[1])
    IN  IF remaining_budget = None THEN c
        ELSE Min2(c, CanTake(SortByVal(filtered), 0, remaining_budget[1]))

\* feasible_max after the max_count, item slot and budget limits
FeasibleMax(filtered, max_count, remaining_item_slots, remaining_budget) ==
    LET a == Len(filtered)
        b == IF max_count = None THEN a ELSE Min2(a, max_count[1])
        c == IF remaining_item_slots = None THEN b
             ELSE Min2(b, remaining_item_slots[1])
    IN  IF remaining_budget = None THEN c
        ELSE Min2(c, BudgetCap(filtered, remaining_budget[1]))

\* min(selected, key=val) in place of max
MinByVal(selected) ==
    LET i == CHOOSE i \in DOMAIN selected :
                /\ \A j \in DOMAIN selected : val(selected[j]) >= val(selected[i])
                /\ \A j \in 1..(i - 1) : val(selected[j]) > val(selected[i])
    IN  selected[i]

\* max(selected, key=val): the first entry of the largest value
MaxByVal(selected) ==
    LET i == CHOOSE i \in DOMAIN selected :
                /\ \A j \in DOMAIN selected : val(selected[j]) <= val(selected[i])
                /\ \A j \in 1..(i - 1) : val(selected[j]) < val(selected[i])
    IN  selected[i]

\* a list.remove(x) that leaves the list as it is
RemoveNone(s, x) == s

\* list.remove(x): drops the first occurrence
RECURSIVE Remove(_, _)
Remove(s, x) ==
    IF s = <<>> THEN <<>>
    ELSE IF Head(s) = x THEN Tail(s)
    ELSE <<Head(s)>> \o Remove(Tail(s), x)

Ids(entries) == {entries[i].id : i \in DOMAIN entries}

(***************************************************************************)
(* One run_generator call: its position (pc), arguments and locals.        *)
(* contrib (the bucket each result came from), swaps (passes of the repair *)
(* loop so far) and repaired (the buckets whose sample the loop changed)   *)
(* are history the code does not keep.                                     *)
(***************************************************************************)
NoError == [kind |-> "none", site |-> "none", bucket |-> None, mentions |-> {}]

\* raise GeneratorError(...): kind, raising site, bucket named, values named
GeneratorError(site, bucket, mentions) ==
    [kind |-> "GeneratorError", site |-> site, bucket |-> bucket,
     mentions |-> mentions]

NoConfig == GeneratorConfig(None, None, None, None, FALSE, None, <<>>)

IdleCall ==
    [pc |-> "idle", config |-> NoConfig, b |-> 0,
     results |-> <<>>, contrib |-> <<>>, used_ids |-> {}, picked |-> <<>>,
     filtered |-> <<>>, min_count |-> 0, feasible_max |-> 0,
     remaining_budget |-> None, target_count |-> 0,
     selected |-> <<>>, selected_ids |-> {}, remaining |-> <<>>, total |-> 0,
     swaps |-> 0, repaired |-> {},
     err |-> NoError]

\* the locals of _generate_bucket, dropped when it returns or raises
ClearLocals(c) ==
    [c EXCEPT !.filtered = <<>>, !.min_count = 0, !.feasible_max = 0,
              !.remaining_budget = None, !.target_count = 0,
              !.selected = <<>>, !.selected_ids = {}, !.remaining = <<>>,
              !.total = 0, !.swaps = 0]

\* run_generator entry: results = [], used_ids = set(), first bucket
StartCall(config) ==
    [IdleCall EXCEPT !.config = config, !.b = 1,
                     !.pc = IF config.buckets = <<>> THEN "validate" ELSE "bucket"]

\* a return of _generate_bucket that never adds to used_ids
ReturnPickedUnmarked(c, picked, mark) ==
    [ClearLocals(c) EXCEPT !.picked = picked, !.pc = "extend"]

\* return picked from _generate_bucket, the ids marked used
ReturnPicked(c, picked, mark) ==
    [ClearLocals(c) EXCEPT !.picked = picked,
                           !.used_ids = IF mark THEN c.used_ids \cup Ids(picked)
                                        ELSE c.used_ids,
                           !.pc = "extend"]

\* raise: the frame keeps its locals, the call ends
Raise(c, err) == [c EXCEPT !.pc = "raised", !.err = err]

\* _generate_bucket up to the feasibility check (bucket range .. step 4)
BeginBucket(c, filterFields) ==
    LET config    == c.config
        bucket    == config.buckets[c.b]
        min_count == BucketMinCount(bucket)
        max_count == BucketMaxCount(bucket)
        slots     == RemainingItemSlots(config, c.results)
        budget    == RemainingBudget(config, c.results)
        filtered  == FilteredPool(config, bucket, c.used_ids)
        feasible  == FeasibleMax(filtered, max_count, slots, budget)
        frame     == [c EXCEPT !.filtered = filtered, !.min_count = min_count,
                               !.feasible_max = feasible,
                               !.remaining_budget = budget]
    IN  IF ~(EngineFilterKwargs \subseteq filterFields)
        THEN Raise(c, [kind |-> "TypeError", site |-> "EntryFilters",
                       bucket |-> None, mentions |-> {}])
        ELSE IF filtered = <<>>
        THEN IF min_count > 0
             THEN Raise(frame, GeneratorError("empty_pool", Some(bucket.name),
                                              {<<"min_count", min_count>>,
                                               <<"candidates", 0>>}))
             ELSE ReturnPicked(c, <<>>, FALSE)
        ELSE IF feasible < min_count
        THEN Raise(frame, GeneratorError("feasibility", Some(bucket.name),
                    {<<"min_count", min_count>>, <<"feasible_max", feasible>>}
                    \cup (IF slots = None THEN {}
                          ELSE {<<"remaining_item_slots", slots[1]>>})
                    \cup (IF budget = None THEN {}
                          ELSE {<<"remaining_budget", budget[1]>>})))
        ELSE [frame EXCEPT !.pc = "target"]

\* after target_count = random.randint(min_count, feasible_max)
AfterTarget(c, target_count) ==
    IF target_count = 0 THEN ReturnPicked(c, <<>>, FALSE)
    ELSE [c EXCEPT !.target_count = target_count, !.pc = "sample"]

\* step 5 with the drawn sample: unbudgeted return, or the budgeted setup
AfterSample(c, initial) ==
    IF c.remaining_budget = None THEN ReturnPicked(c, initial, TRUE)
    ELSE LET selected_ids == Ids(initial)
             remaining == Filter(c.filtered,
                                 {e \in Range(c.filtered) : e.id \notin selected_ids})
             total == SumVal(initial)
         IN  IF total > c.remaining_budget[1]
             THEN [c EXCEPT !.selected = initial, !.selected_ids = selected_ids,
                            !.remaining = SortByVal(remaining),
                            !.total = total, !.pc = "repair"]
             ELSE ReturnPicked(c, initial, TRUE)

\* a pass of the loop that swaps in the dearest remaining candidate and does
\* not ask whether the swap is cheaper
RepairPassDearest(c) ==
    LET budget  == c.remaining_budget[1]
        k       == c.target_count
        bucket  == c.config.buckets[c.b]
    IN  IF c.remaining = <<>>
        THEN Raise(c, GeneratorError("no_remaining", Some(bucket.name),
                                     {<<"k", k>>, <<"remaining_budget", budget>>}))
        ELSE LET sel_max == MaxByVal(c.selected)
                 rem_max == c.remaining[Len(c.remaining)]
                 selected == Append(Remove(c.selected, sel_max), rem_max)
                 ids == (c.selected_ids \ {sel_max.id}) \cup {rem_max.id}
                 total == c.total - val(sel_max) + val(rem_max)
                 remaining == SortByVal(Append(SubSeq(c.remaining, 1,
                                                      Len(c.remaining) - 1),
                                               sel_max))
                 swapped == [c EXCEPT !.selected = selected,
                                      !.selected_ids = ids,
                                      !.total = total,
                                      !.remaining = remaining,
                                      !.swaps = c.swaps + 1,
                                      !.repaired = c.repaired \cup {c.b}]
             IN  IF total > budget THEN swapped
                 ELSE ReturnPicked(swapped, selected, TRUE)

\* one pass of `while total > budget`, then the loop test
RepairPass(c) ==
    LET budget  == c.remaining_budget[1]
        k       == c.target_count
        bucket  == c.config.buckets[c.b]
    IN  IF c.remaining = <<>>
        THEN Raise(c, GeneratorError("no_remaining", Some(bucket.name),
                                     {<<"k", k>>, <<"remaining_budget", budget>>}))
        ELSE LET sel_max == MaxByVal(c.selected)
                 rem_min == c.remaining[1]
             IN  IF val(rem_min) >= val(sel_max)
                 THEN Raise(c, GeneratorError("no_cheaper_swap", Some(bucket.name),
                                     {<<"k", k>>, <<"remaining_budget", budget>>}))
                 ELSE LET selected == Append(Remove(c.selected, sel_max), rem_min)
                          ids == (c.selected_ids \ {sel_max.id}) \cup {rem_min.id}
                          total == c.total - val(sel_max) + val(rem_min)
                          remaining == SortByVal(Append(Tail(c.remaining), sel_max))
                          swapped == [c EXCEPT !.selected = selected,
                                               !.selected_ids = ids,
                                               !.total = total,
                                               !.remaining = remaining,
                                               !.swaps = c.swaps + 1,
                                               !.repaired = c.repaired \cup {c.b}]
                      IN  IF total > budget THEN swapped
                          ELSE ReturnPicked(swapped, selected, TRUE)

\* results.extend(picked) with the new items put in front of the list
ExtendFront(c) ==
    [c EXCEPT !.results = c.picked \o c.results,
              !.contrib = [i \in 1..Len(c.picked) |-> c.b] \o c.contrib,
              !.picked = <<>>,
              !.b = c.b + 1,
              !.pc = IF c.b < Len(c.config.buckets) THEN "bucket" ELSE "validate"]

\* results.extend(picked), then the next bucket or the final validation
Extend(c) ==
    [c EXCEPT !.results = c.results \o c.picked,
              !.contrib = c.contrib \o [i \in 1..Len(c.picked) |-> c.b],
              !.picked = <<>>,
              !.b = c.b + 1,
              !.pc = IF c.b < Len(c.config.buckets) THEN "bucket" ELSE "validate"]

\* the final validation with the two minimum checks left out
FinalValidationMaxOnly(c) ==
    IF c.config.max_items # None /\ Len(c.results) > c.config.max_items[1]
    THEN Raise(c, GeneratorError("max_items", None, {}))
    ELSE IF c.config.max_total_value # None
            /\ SumVal(c.results) > c.config.max_total_value[1]
    THEN Raise(c, GeneratorError("max_total_value", None, {}))
    ELSE [c EXCEPT !.pc = "returned"]

\* final strict validation of run_generator
FinalValidation(c) ==
    LET config == c.config
        count == current_totals(c.results)[1]
        total_value == current_totals(c.results)[2]
        global(site, bound) ==
            Raise(c, GeneratorError(site, None,
                    {<<"count", count>>, <<"total_value", total_value>>,
                     <<site, bound>>}))
    IN  IF config.max_items # None /\ count > config.max_items[1]
        THEN global("max_items", config.max_items[1])
        ELSE IF config.max_total_value # None
                /\ total_value > config.max_total_value[1]
        THEN global("max_total_value", config.max_total_value[1])
        ELSE IF config.min_items # None /\ count < config.min_items[1]
        THEN global("min_items", config.min_items[1])
        ELSE IF config.min_total_value # None
                /\ total_value < config.min_total_value[1]
        THEN global("min_total_value", config.min_total_value[1])
        ELSE [c EXCEPT !.pc = "returned"]

(***************************************************************************)
(* Inputs: the configurations a caller may pass                            *)
(***************************************************************************)
BucketNames == <<"b1", "b2", "b3", "b4">>

Wa == <<"W", "A">>

\* bucket shapes, named by their position in a config
BucketShapes ==
    { BucketConfig("", Some(0),  Some(0),  Some(<<"Rare">>), None, None, None, None,
                   FALSE),
      BucketConfig("", Some(1),  Some(2),  None, None, None, None, None, TRUE),
      BucketConfig("", Some(2),  Some(-1), None, None, None, None, Some(FALSE),
                   FALSE),
      BucketConfig("", Some(1),  Some(1),  Some(<<"Common">>), Some(<<Wa>>),
                   None, None, None, TRUE),
      BucketConfig("", Some(1),  None,     None, None, Some(20), None, None, FALSE),
      BucketConfig("", Some(2),  Some(1),  None, None, None, None, None, TRUE),
      BucketConfig("", Some(-1), Some(1),  None, Some(<<>>), None, Some(20),
                   Some(FALSE), FALSE),
      BucketConfig("", Some(2),  Some(3),  Some(<<>>), None, None, None,
                   Some(TRUE), TRUE) }

BucketLists ==
    UNION { {[i \in 1..n |-> [shapes[i] EXCEPT !.name = BucketNames[i]]] :
               shapes \in [1..n -> BucketShapes]} : n \in 0..MaxBuckets }

GlobalMinima == {<<None, None>>, <<Some(2), None>>, <<None, Some(30)>>}

GeneralConfigs ==
    { GeneratorConfig(m[1], max_items, m[2], max_total_value, unique, None, bs) :
        m \in GlobalMinima, max_items \in {None, Some(2)},
        max_total_value \in {None, Some(10), Some(30)},
        unique \in BOOLEAN, bs \in BucketLists }

\* seeded configurations for the reproducibility scenarios
SeededConfigs ==
    { GeneratorConfig(None, None, None, max_total_value, TRUE, seed,
                      <<[shape EXCEPT !.name = BucketNames[1]]>>) :
        max_total_value \in {None, Some(30)},
        seed \in {None, Some(1), Some(2)},
        shape \in {s \in BucketShapes : s.min_count \in {Some(1), Some(2)}
                                         /\ s.allowed_rarities = None
                                         /\ s.max_count # Some(1)} }

\* the seeded configurations a caller repeats in a row of calls
SequenceConfigs ==
    {c \in SeededConfigs : /\ c.buckets[1].min_count = Some(1)
                           /\ c.max_total_value # None}

\* the configurations with a value cap and no global minimum
BudgetedConfigs ==
    {c \in GeneralConfigs : /\ c.max_total_value # None
                            /\ c.min_items = None
                            /\ c.min_total_value = None}

\* configurations whose buckets each need an item and share the item cap
SharedConfigs ==
    {c \in GeneralConfigs :
       /\ c.max_items # None
       /\ c.max_total_value # Some(30)
       /\ c.min_items = None /\ c.min_total_value = None
       /\ ~c.global_prefer_unique
       /\ \A i \in DOMAIN c.buckets : c.buckets[i].min_count = Some(1)}

\* seeded configurations under global_prefer_unique, where a later bucket
\* can find its pool used up
SkipConfigs ==
    { GeneratorConfig(None, None, None, max_total_value, TRUE, seed, bs) :
        max_total_value \in {None, Some(30)}, seed \in {Some(1), Some(2)},
        bs \in BucketLists \ {<<>>} }

ConfigPool(sc) ==
    CASE sc = "general" -> GeneralConfigs
      [] sc = "skipping" -> SkipConfigs
      [] sc = "shared" -> SharedConfigs
      [] sc = "budgeted" -> BudgetedConfigs
      [] sc = "sequence" -> SequenceConfigs
      [] OTHER -> SeededConfigs

(***************************************************************************)
(* repos.py: EntryRepository.upsert_entry and bulk_upsert.  A str is a     *)
(* sequence of characters, so "" is <<>>, and an Optional[str] is None or  *)
(* Some(str).  A data dict is a function from the keys it has.             *)
(***************************************************************************)
IsSpace(ch) == ch \in {" ", "\t", "\n"}

RECURSIVE LStrip(_)
LStrip(s) ==
    IF s = <<>> THEN <<>>
    ELSE IF IsSpace(Head(s)) THEN LStrip(Tail(s))
    ELSE s

RECURSIVE RStrip(_)
RStrip(s) ==
    IF s = <<>> THEN <<>>
    ELSE IF IsSpace(s[Len(s)]) THEN RStrip(SubSeq(s, 1, Len(s) - 1))
    ELSE s

\* str.strip()
Strip(s) == RStrip(LStrip(s))

\* _trim that only strips the left side
trimLeft(v) ==
    IF v = None THEN None
    ELSE IF LStrip(v[1]) = <<>> THEN None ELSE Some(LStrip(v[1]))

\* _trim(s): None for None and for a blank string, else the stripped string
trim(v) ==
    IF v = None THEN None
    ELSE IF Strip(v[1]) = <<>> THEN None ELSE Some(Strip(v[1]))

\* data.get(k)
Get(data, k) == IF k \in DOMAIN data THEN data[k] ELSE None

\* truth value of a str, list or None
Truthy(v) == v # None /\ v[1] # <<>>

\* a or b
Or(a, b) == IF Truthy(a) THEN a ELSE b

\* _coerce_bool(v, default)
coerce_bool(v, default) == IF v = None THEN default ELSE v[1]

\* code points of the characters the inputs use
CharCode(ch) ==
    CASE ch = "\t" -> 9
      [] ch = "\n" -> 10
      [] ch = " " -> 32
      [] ch = "A" -> 65
      [] ch = "B" -> 66
      [] OTHER -> 90

\* s < t for str
RECURSIVE StrLess(_, _)
StrLess(s, t) ==
    IF t = <<>> THEN FALSE
    ELSE IF s = <<>> THEN TRUE
    ELSE IF CharCode(Head(s)) # CharCode(Head(t))
         THEN CharCode(Head(s)) < CharCode(Head(t))
    ELSE StrLess(Tail(s), Tail(t))

\* sorted(set(cleaned))
RECURSIVE SortedStrs(_)
SortedStrs(S) ==
    IF S = {} THEN <<>>
    ELSE LET m == CHOOSE m \in S : \A x \in S \ {m} : StrLess(m, x)
         IN  <<m>> \o SortedStrs(S \ {m})

\* _normalize_specific_tags(val) for None or a list of str: the sorted,
\* deduplicated list that json.dumps writes, or None
normalize_specific_tags(tags) ==
    IF tags = None \/ tags[1] = <<>> THEN None
    ELSE LET cleaned == {Strip(tags[1][i]) : i \in DOMAIN tags[1]} \ {<<>>}
         IN  IF cleaned = {} THEN None ELSE Some(SortedStrs(cleaned))

TrimmedKeys ==
    {"name", "type", "rarity", "attunement_criteria", "source_link",
     "description", "image_url"}

\* the pre-trim loop of upsert_entry and bulk_upsert
PreTrim(data) ==
    [k \in DOMAIN data |-> IF k \in TrimmedKeys THEN trim(data[k]) ELSE data[k]]

Unknown == <<"U">>

\* Entry(...) as upsert_entry builds it for an insert
NewEntry(id, data, link) ==
    [id |-> id,
     name |-> Or(Get(data, "name"), Some(Unknown)),
     type |-> Or(Get(data, "type"), Some(Unknown)),
     rarity |-> Or(Get(data, "rarity"), Some(Unknown)),
     attunement_required |-> coerce_bool(Get(data, "attunement_required"), FALSE),
     attunement_criteria |-> Get(data, "attunement_criteria"),
     source_link |-> Or(link, None),
     description |-> Get(data, "description"),
     image_url |-> Get(data, "image_url"),
     value |-> Get(data, "value"),
     value_updated |-> coerce_bool(Get(data, "value_updated"), FALSE),
     general_type |-> IF Truthy(Get(data, "general_type"))
                      THEN trim(Get(data, "general_type")) ELSE None,
     specific_type_tags_json |->
         normalize_specific_tags(Get(data, "specific_type_tags"))]

\* Entry(...) as bulk_upsert builds it: no general_type, no tags
NewEntryBulk(id, data, link) ==
    [NewEntry(id, data, link) EXCEPT !.general_type = None,
                                     !.specific_type_tags_json = None]

AssignedFields ==
    {"name", "type", "rarity", "attunement_criteria", "description", "image_url"}

\* a field assignment that takes any value the data has, empty ones included
assign_if_present(target, field, data) ==
    IF field \notin DOMAIN data THEN target[field] ELSE data[field]

\* _assign_if_present_nonempty(obj, field, data): the field's value after it
assign_if_present_nonempty(target, field, data) ==
    IF field \notin DOMAIN data THEN target[field]
    ELSE LET v == trim(data[field])
         IN  IF v = None \/ v = Some(<<>>) THEN target[field] ELSE v

\* a present key whose value is not None
Given(data, k) == k \in DOMAIN data /\ data[k] # None

\* _update_existing_internal(target, data, s): the row after the update
update_existing_internal(target, data) ==
    [f \in DOMAIN target |->
       CASE f \in AssignedFields -> assign_if_present_nonempty(target, f, data)
         [] f = "general_type" ->
              IF "general_type" \in DOMAIN data
                 /\ Truthy(trim(data["general_type"]))
              THEN trim(data["general_type"]) ELSE target[f]
         [] f = "specific_type_tags_json" ->
              IF "specific_type_tags" \in DOMAIN data
                 /\ normalize_specific_tags(data["specific_type_tags"]) # None
              THEN normalize_specific_tags(data["specific_type_tags"])
              ELSE target[f]
         [] f = "attunement_required" ->
              IF Given(data, f) THEN data[f][1] ELSE target[f]
         [] f = "value" -> IF Given(data, f) THEN data[f] ELSE target[f]
         [] f = "value_updated" ->
              IF Given(data, f) THEN data[f][1] ELSE target[f]
         [] OTHER -> target[f]]

(***************************************************************************)
(* One EntryRepository call and its session: the rows it inserted (news)   *)
(* and the rows it changed (changed) are flushed but not yet committed.    *)
(* n (items given), inserted (rows the commit added) and link (the link of *)
(* the item last written) are history the code does not keep.              *)
(***************************************************************************)
NoData == [k \in {} |-> None]

IdleTx ==
    [pc |-> "idle", op |-> "none", items |-> <<>>, n |-> 0, data |-> NoData,
     target |-> None, news |-> {}, changed |-> {}, created |-> 0,
     updated |-> 0, obj_id |-> None, inserted |-> 0, link |-> <<>>]

NoReturn ==
    [op |-> "none", ok |-> TRUE, n |-> 0, link |-> <<>>, created |-> 0,
     updated |-> 0, inserted |-> 0, saved |-> {}]

RowIds(rows) == {r.id : r \in rows}

\* what a statement of the session sees: committed rows and its own writes
View(table, t) ==
    {r \in table : r.id \notin RowIds(t.changed)} \cup t.changed \cup t.news

\* the autoincrement primary key
NextId(rows) ==
    IF rows = {} THEN 1
    ELSE 1 + (CHOOSE m \in RowIds(rows) : \A i \in RowIds(rows) : i <= m)

\* link = data.get("source_link") or ""
LinkOf(data) ==
    IF Truthy(Get(data, "source_link")) THEN data["source_link"][1] ELSE <<>>

\* a lookup that also matches by (name, type) when the data has a link
FindTargetNameFirst(rows, data) ==
    LET nm == Get(data, "name")
        tp == Get(data, "type")
        matches == {r \in rows : r.name = nm /\ r.type = tp}
    IN  IF Truthy(nm) /\ Truthy(tp) /\ Cardinality(matches) = 1
        THEN Some((CHOOSE r \in matches : TRUE).id)
        ELSE None

\* the target of an upsert: by source_link, else by a single (name, type) match
FindTarget(rows, data) ==
    LET link == LinkOf(data)
        nm == Get(data, "name")
        tp == Get(data, "type")
        byLink == {r \in rows : r.source_link = Some(link)}
        matches == {r \in rows : r.name = nm /\ r.type = tp}
    IN  IF link # <<>>
        THEN IF byLink = {} THEN None ELSE Some((CHOOSE r \in byLink : TRUE).id)
        ELSE IF Truthy(nm) /\ Truthy(tp) /\ Cardinality(matches) = 1
        THEN Some((CHOOSE r \in matches : TRUE).id)
        ELSE None

\* the statement that begins an item: pre-trim and the SELECT of the target
SelectTarget(table, t) ==
    LET data == PreTrim(Head(t.items))
    IN  [t EXCEPT !.data = data, !.target = FindTarget(View(table, t), data),
                  !.pc = "write"]

\* the item is done: the next item, or the end of the session scope
NextItem(t) ==
    [t EXCEPT !.items = Tail(t.items), !.data = NoData, !.target = None,
              !.link = LinkOf(t.data),
              !.pc = IF Tail(t.items) = <<>> THEN "commit" ELSE "select"]

\* the unique index on source_link refuses the flushed INSERT
Conflicts(table, link) ==
    link # <<>> /\ \E r \in table : r.source_link = Some(link)

\* the INSERT or UPDATE of the item and its flush: <<session, table>> after
WriteItem(table, t) ==
    LET data == t.data
        link == LinkOf(data)
        id   == NextId(table \cup t.news)
        e    == IF t.op = "bulk_upsert" THEN NewEntryBulk(id, data, Some(link))
                ELSE NewEntry(id, data, Some(link))
        count(u, field) == IF t.op = "bulk_upsert"
                           THEN [u EXCEPT ![field] = @ + 1] ELSE u
    IN  IF t.target = None
        THEN IF Conflicts(View(table, t), link)
             THEN \* IntegrityError: s.rollback(), then the update in s2
                  LET rolled == [t EXCEPT !.news = {}, !.changed = {}]
                      found == {r \in table : r.source_link = Some(link)}
                      existing == CHOOSE r \in found : TRUE
                  IN  IF found = {}
                      THEN <<[rolled EXCEPT !.pc = "raised"], table>>
                      ELSE <<NextItem(count([rolled EXCEPT
                                               !.obj_id = Some(existing.id)],
                                            "updated")),
                             (table \ {existing})
                               \cup {update_existing_internal(existing, data)}>>
             ELSE <<NextItem(count([t EXCEPT !.news = t.news \cup {e},
                                             !.obj_id = Some(id)],
                                   "created")),
                    table>>
        ELSE LET old == CHOOSE r \in View(table, t) : r.id = t.target[1]
                 new == update_existing_internal(old, data)
                 written ==
                     IF old \in t.news
                     THEN [t EXCEPT !.news = (t.news \ {old}) \cup {new}]
                     ELSE [t EXCEPT !.changed = (t.changed \ {old}) \cup {new}]
             IN  <<NextItem(count([written EXCEPT !.obj_id = t.target],
                                  "updated")),
                   table>>

(***************************************************************************)
(* Inputs of the repository calls                                          *)
(***************************************************************************)
sA == <<"A">>
sB == <<"B">>
sL == <<"L">>
sM == <<"M">>

DataPool ==
    { \* a full record, strings to be trimmed
      [name |-> Some(<<" ", "A", " ">>), type |-> Some(sB), rarity |-> Some(sA),
       attunement_required |-> Some(TRUE), attunement_criteria |-> Some(sA),
       source_link |-> Some(<<" ", "L">>), description |-> Some(sA),
       image_url |-> Some(sA), value |-> Some(5), value_updated |-> Some(FALSE),
       general_type |-> Some(<<"A", " ">>),
       specific_type_tags |-> Some(<<sB, <<" ", "A">>, sA>>)],
      \* the same link with empty, blank and None values among new ones
      [source_link |-> Some(sL), name |-> Some(<<>>), rarity |-> None,
       attunement_criteria |-> Some(<<"\t">>), description |-> Some(sB),
       image_url |-> Some(<<" ">>), value |-> None,
       attunement_required |-> None, value_updated |-> Some(TRUE),
       general_type |-> None, specific_type_tags |-> Some(<<<<" ">>>>)],
      \* no link: matched by (name, type)
      [name |-> Some(sA), type |-> Some(sB), description |-> Some(sM),
       value |-> Some(7), attunement_required |-> Some(FALSE)],
      \* a blank link and a name of its own
      [source_link |-> Some(<<" ">>), name |-> Some(sB), type |-> Some(sB),
       rarity |-> Some(sB)],
      \* a link and nothing else that is set
      [source_link |-> Some(sM), value |-> Some(0), value_updated |-> None,
       type |-> Some(<<"\n">>)] }

\* items per bulk_upsert call
MaxBatch == 2

\* repository calls per run
MaxRepoCalls == 2

\* the items of bulk_upsert batches: those of DataPool with a description
BatchPool == {d \in DataPool : "description" \in DOMAIN d}

Batches == UNION {[1..n -> BatchPool] : n \in 1..MaxBatch}

\* the links another writer of the database inserts
OtherLinks == {sL, sM}

(***************************************************************************)
(* State                                                                   *)
(***************************************************************************)
Threads == {1, 2}

VARIABLES
    calls,        \* per thread: the run_generator call it is in
    rng,          \* state of the generator shared through `import random`
    filterFields, \* the fields EntryFilters accepts
    callsLeft,    \* per thread: calls it will still make
    history,      \* <<config, outcome>> of the calls that ended, in order
    scenario,     \* which configurations callers pass
    db,           \* the committed rows of the entries table
    tx,           \* the EntryRepository call in progress and its session
    repoLeft,     \* repository calls still to come
    ret           \* what the last repository call returned to its caller

repoVars == <<db, tx, repoLeft, ret>>

vars == <<calls, rng, filterFields, callsLeft, history, scenario, repoVars>>

\* the caller's view when a raised call hands over what it had collected
OutcomePartial(c) ==
    [ok |-> c.pc = "returned", items |-> c.results, err |-> c.err]

\* what the caller of run_generator gets
Outcome(c) ==
    IF c.pc = "returned" THEN [ok |-> TRUE, items |-> c.results, err |-> NoError]
    ELSE [ok |-> FALSE, items |-> <<>>, err |-> c.err]

InitWith(sc, left) ==
    /\ calls = [t \in Threads |-> IdleCall]
    /\ rng = None
    /\ filterFields \in {ReposFilterFields, LegacyFilterFields}
    /\ callsLeft = left
    /\ history = <<>>
    /\ scenario = sc
    /\ db = {}
    /\ tx = IdleTx
    /\ repoLeft = 0
    /\ ret = NoReturn

Init == InitWith("general", [t \in Threads |-> IF t = 1 THEN 1 ELSE 0])

\* a call whose used_ids set outlives the call: it starts from the
\* identifiers the earlier calls returned
CallStale(t) ==
    /\ calls[t].pc = "idle"
    /\ callsLeft[t] > 0
    /\ \E config \in ConfigPool(scenario) :
         /\ calls' = [calls EXCEPT ![t] =
                        [StartCall(config) EXCEPT !.used_ids =
                           UNION {Ids(h[2].items) : h \in Range(history)}]]
         /\ rng' = IF config.random_seed # None
                   THEN SeedRng(config.random_seed[1]) ELSE rng
    /\ callsLeft' = [callsLeft EXCEPT ![t] = @ - 1]
    /\ UNCHANGED <<filterFields, history, scenario, repoVars>>

(***************************************************************************)
(* Actions                                                                 *)
(***************************************************************************)
\* run_generator(repo, config): seeding and the empty results
Call(t) ==
    /\ calls[t].pc = "idle"
    /\ callsLeft[t] > 0
    /\ \E config \in ConfigPool(scenario) :
         /\ calls' = [calls EXCEPT ![t] = StartCall(config)]
         /\ rng' = IF config.random_seed # None
                   THEN SeedRng(config.random_seed[1]) ELSE rng
    /\ callsLeft' = [callsLeft EXCEPT ![t] = @ - 1]
    /\ UNCHANGED <<filterFields, history, scenario, repoVars>>

\* _generate_bucket that draws from the generator before it looks at the pool
GenerateBucketDrawing(t) ==
    /\ calls[t].pc = "bucket"
    /\ calls' = [calls EXCEPT ![t] = BeginBucket(calls[t], filterFields)]
    /\ \E d \in RandBelow(rng, 2) : rng' = d[2]
    /\ UNCHANGED <<filterFields, callsLeft, history, scenario, repoVars>>

\* _generate_bucket: bucket range, caps, coarse query, refinement, feasibility
GenerateBucket(t) ==
    /\ calls[t].pc = "bucket"
    /\ calls' = [calls EXCEPT ![t] = BeginBucket(calls[t], filterFields)]
    /\ UNCHANGED <<rng, filterFields, callsLeft, history, scenario, repoVars>>

\* target_count = random.randint(min_count, feasible_max)
DrawTarget(t) ==
    /\ calls[t].pc = "target"
    /\ \E d \in RandInt(rng, calls[t].min_count, calls[t].feasible_max) :
         /\ calls' = [calls EXCEPT ![t] = AfterTarget(calls[t], d[1])]
         /\ rng' = d[2]
    /\ UNCHANGED <<filterFields, callsLeft, history, scenario, repoVars>>

\* step 5: random.sample, or the whole pool when target_count >= available
DrawSample(t) ==
    /\ calls[t].pc = "sample"
    /\ LET c == calls[t]
       IN  IF c.target_count < Len(c.filtered)
           THEN \E d \in Sample(rng, c.filtered, c.target_count) :
                  /\ calls' = [calls EXCEPT ![t] = AfterSample(c, d[1])]
                  /\ rng' = d[2]
           ELSE /\ calls' = [calls EXCEPT ![t] = AfterSample(c, c.filtered)]
                /\ rng' = rng
    /\ UNCHANGED <<filterFields, callsLeft, history, scenario, repoVars>>

\* one pass of the budget repair loop
Repair(t) ==
    /\ calls[t].pc = "repair"
    /\ calls' = [calls EXCEPT ![t] = RepairPass(calls[t])]
    /\ UNCHANGED <<rng, filterFields, callsLeft, history, scenario, repoVars>>

\* results.extend(picked)
ExtendResults(t) ==
    /\ calls[t].pc = "extend"
    /\ calls' = [calls EXCEPT ![t] = Extend(calls[t])]
    /\ UNCHANGED <<rng, filterFields, callsLeft, history, scenario, repoVars>>

\* the final validation: return results or raise
Validate(t) ==
    /\ calls[t].pc = "validate"
    /\ calls' = [calls EXCEPT ![t] = FinalValidation(calls[t])]
    /\ UNCHANGED <<rng, filterFields, callsLeft, history, scenario, repoVars>>

\* the caller receives the list or the exception
Finish(t) ==
    /\ calls[t].pc \in {"returned", "raised"}
    /\ history' = Append(history, <<calls[t].config, Outcome(calls[t])>>)
    /\ calls' = [calls EXCEPT ![t] = IdleCall]
    /\ UNCHANGED <<rng, filterFields, callsLeft, scenario, repoVars>>

\* some other user of the random module draws while no call is running
OtherDraw ==
    /\ rng # None
    /\ \A t \in Threads : calls[t].pc = "idle"
    /\ \E t \in Threads : callsLeft[t] > 0
    /\ rng' = Some(NextRng(rng[1]))
    /\ UNCHANGED <<calls, filterFields, callsLeft, history, scenario, repoVars>>

Next ==
    \/ \E t \in Threads : Call(t)
    \/ \E t \in Threads : GenerateBucket(t)
    \/ \E t \in Threads : DrawTarget(t)
    \/ \E t \in Threads : DrawSample(t)
    \/ \E t \in Threads : Repair(t)
    \/ \E t \in Threads : ExtendResults(t)
    \/ \E t \in Threads : Validate(t)
    \/ \E t \in Threads : Finish(t)

Spec == Init /\ [][Next]_vars

\* run_generator run alone from generator state r: what it gives the caller
RECURSIVE RunSeeded(_, _)
RunSeeded(c, r) ==
    CASE c.pc = "bucket" -> RunSeeded(BeginBucket(c, filterFields), r)
      [] c.pc = "target" ->
           LET d == CHOOSE d \in RandInt(r, c.min_count, c.feasible_max) : TRUE
           IN  RunSeeded(AfterTarget(c, d[1]), d[2])
      [] c.pc = "sample" ->
           IF c.target_count < Len(c.filtered)
           THEN LET d == CHOOSE d \in Sample(r, c.filtered, c.target_count) : TRUE
                IN  RunSeeded(AfterSample(c, d[1]), d[2])
           ELSE RunSeeded(AfterSample(c, c.filtered), r)
      [] c.pc = "repair" -> RunSeeded(RepairPass(c), r)
      [] c.pc = "extend" -> RunSeeded(Extend(c), r)
      [] c.pc = "validate" -> RunSeeded(FinalValidation(c), r)
      [] OTHER -> Outcome(c)

\* the outcome of a seeded call that nothing interleaves with
SoloOutcome(config) ==
    RunSeeded(StartCall(config), SeedRng(config.random_seed[1]))

\* one caller, several seeded or unseeded calls in a row, other draws between
MaxCalls == 3

InitSeq == InitWith("sequence", [t \in Threads |-> IF t = 1 THEN MaxCalls ELSE 0])

NextSeq == Next \/ OtherDraw

SpecSeq == InitSeq /\ [][NextSeq]_vars

\* one caller runs an unseeded configuration, then runs one again
InitTwice == InitWith("shared", [t \in Threads |-> IF t = 1 THEN 2 ELSE 0])

SpecTwice == InitTwice /\ [][Next]_vars

\* one caller runs one seeded configuration
InitSkip == InitWith("skipping", [t \in Threads |-> IF t = 1 THEN 1 ELSE 0])

SpecSkip == InitSkip /\ [][Next]_vars

\* two callers (GenerateWorker runnables on the thread pool), one call each
InitConc == InitWith("seeded", [t \in Threads |-> 1])

SpecConc == InitConc /\ [][Next]_vars

(***************************************************************************)
(* The repository: one caller of EntryRepository, and another writer of    *)
(* the same database whose committed insert can fall between a call's      *)
(* SELECT and its flush (the race upsert_entry and bulk_upsert handle).    *)
(***************************************************************************)
EngineIdle ==
    /\ calls = [t \in Threads |-> IdleCall]
    /\ rng = None
    /\ filterFields = ReposFilterFields
    /\ callsLeft = [t \in Threads |-> 0]
    /\ history = <<>>
    /\ scenario = "repository"

engineVars == <<calls, rng, filterFields, callsLeft, history, scenario>>

InitRepo ==
    /\ EngineIdle
    /\ db = {}
    /\ tx = IdleTx
    /\ repoLeft = MaxRepoCalls
    /\ ret = NoReturn

StartTx(op, items) ==
    [IdleTx EXCEPT !.pc = "select", !.op = op, !.items = items,
                   !.n = Len(items)]

\* repo.upsert_entry(data)
CallUpsertEntry ==
    /\ tx.pc = "idle"
    /\ repoLeft > 0
    /\ \E data \in DataPool : tx' = StartTx("upsert_entry", <<data>>)
    /\ repoLeft' = repoLeft - 1
    /\ UNCHANGED <<db, ret, engineVars>>

\* repo.bulk_upsert(items)
CallBulkUpsert ==
    /\ tx.pc = "idle"
    /\ repoLeft > 0
    /\ \E items \in Batches : tx' = StartTx("bulk_upsert", items)
    /\ repoLeft' = repoLeft - 1
    /\ UNCHANGED <<db, ret, engineVars>>

\* pre-trim and SELECT for the item at hand
Select ==
    /\ tx.pc = "select"
    /\ tx' = SelectTarget(db, tx)
    /\ UNCHANGED <<db, repoLeft, ret, engineVars>>

\* INSERT or UPDATE for the item at hand, flushed
Write ==
    /\ tx.pc = "write"
    /\ tx' = WriteItem(db, tx)[1]
    /\ db' = WriteItem(db, tx)[2]
    /\ UNCHANGED <<repoLeft, ret, engineVars>>

\* session_scope exit: s.commit()
Commit ==
    /\ tx.pc = "commit"
    /\ db' = View(db, tx)
    /\ tx' = [tx EXCEPT !.pc = "done", !.inserted = Cardinality(tx.news),
                        !.news = {}, !.changed = {}]
    /\ UNCHANGED <<repoLeft, ret, engineVars>>

\* upsert_entry: get_by_id(obj_id) and return saved; bulk_upsert: return
\* (created, updated); or the exception leaves the call
Return ==
    /\ tx.pc \in {"done", "raised"}
    /\ ret' = IF tx.pc = "raised"
              THEN [NoReturn EXCEPT !.op = tx.op, !.ok = FALSE, !.n = tx.n]
              ELSE [op |-> tx.op, ok |-> TRUE, n |-> tx.n, link |-> tx.link,
                    created |-> tx.created, updated |-> tx.updated,
                    inserted |-> tx.inserted,
                    saved |-> IF tx.op = "upsert_entry"
                              THEN {r \in db : Some(r.id) = tx.obj_id}
                              ELSE {}]
    /\ tx' = IdleTx
    /\ UNCHANGED <<db, repoLeft, engineVars>>

\* another transaction inserts an entry with a link and commits
OtherWriter ==
    /\ \E link \in OtherLinks :
         /\ ~Conflicts(db \cup tx.news, link)
         /\ db' = db \cup {NewEntry(NextId(db \cup tx.news),
                                    [source_link |-> Some(link)], Some(link))}
    /\ UNCHANGED <<tx, repoLeft, ret, engineVars>>

NextRepo ==
    \/ CallUpsertEntry
    \/ CallBulkUpsert
    \/ Select
    \/ Write
    \/ Commit
    \/ Return
    \/ OtherWriter

SpecRepo == InitRepo /\ [][NextRepo]_vars

(***************************************************************************)
(* Properties                                                              *)
(***************************************************************************)
\* number of items of the results that bucket i contributed
ContribCount(c, i) == Cardinality({k \in DOMAIN c.contrib : c.contrib[k] = i})

\* sum of the values of a list, unknown value counted as 0
RECURSIVE ValueSum(_)
ValueSum(items) ==
    IF items = <<>> THEN 0
    ELSE (IF Head(items).value = None THEN 0 ELSE Head(items).value[1])
         + ValueSum(Tail(items))

C2_GlobalBounds ==
    \A t \in Threads :
      calls[t].pc = "returned" =>
        LET config == calls[t].config
            count == Len(calls[t].results)
            total == ValueSum(calls[t].results)
        IN  /\ config.max_items = None \/ count <= config.max_items[1]
            /\ config.min_items = None \/ count >= config.min_items[1]
            /\ config.max_total_value = None \/ total <= config.max_total_value[1]
            /\ config.min_total_value = None \/ total >= config.min_total_value[1]

\* a list of two buckets returned under a set maximum and a set minimum,
\* both met exactly
C2_Witness ==
    \E t \in Threads :
      /\ calls[t].pc = "returned"
      /\ Len(calls[t].config.buckets) = 2
      /\ calls[t].config.max_total_value = Some(30)
      /\ calls[t].config.min_total_value = Some(30)
      /\ calls[t].config.max_items = Some(2)
      /\ ValueSum(calls[t].results) = 30
      /\ Len(calls[t].results) = 2

\* prefer_unique is active globally or on some bucket
PreferUniqueActive(config) ==
    \/ config.global_prefer_unique
    \/ \E i \in DOMAIN config.buckets : config.buckets[i].prefer_unique

RECURSIVE SetValueSum(_)
SetValueSum(S) ==
    IF S = {} THEN 0
    ELSE LET e == CHOOSE x \in S : TRUE
         IN  (IF e.value = None THEN 0 ELSE e.value[1]) + SetValueSum(S \ {e})

\* some subset of k entries of the pool costs at most budget
AffordableSubset(pool, k, budget) ==
    \E S \in SUBSET Range(pool) : Cardinality(S) = k /\ SetValueSum(S) <= budget

\* C4: once the initial sample of target_count items exceeds remaining_budget
\* and target_count items of the filtered pool fit the budget, every pass of
\* the swap loop lowers the total without raising, and the bucket returns
\* exactly target_count items whose value sum is at most remaining_budget.
C4_RepairSucceeds ==
    [][\A t \in Threads :
         (/\ calls[t].pc = "repair"
          /\ calls'[t] # calls[t]
          /\ AffordableSubset(calls[t].filtered, calls[t].target_count,
                              calls[t].remaining_budget[1])) =>
           \/ /\ calls'[t].pc = "repair"
              /\ calls'[t].total < calls[t].total
              /\ Len(calls'[t].selected) = calls[t].target_count
           \/ /\ calls'[t].pc = "extend"
              /\ Len(calls'[t].picked) = calls[t].target_count
              /\ ValueSum(calls'[t].picked) <= calls[t].remaining_budget[1]]_vars

\* a bucket has just returned two or more items that the swap loop repaired
C4_Witness ==
    \E t \in Threads :
      /\ calls[t].pc = "extend"
      /\ calls[t].b \in calls[t].repaired
      /\ Len(calls[t].picked) >= 2
      /\ calls[t].config.max_total_value # None
      /\ ValueSum(calls[t].results \o calls[t].picked)
           <= calls[t].config.max_total_value[1]

\* the frame of _generate_bucket holds a computed pool: the call is past
\* the refinement, or raised at the empty pool or at the feasibility check
HasPool(c) ==
    \/ c.pc \in {"target", "sample", "repair"}
    \/ c.pc = "raised" /\ c.err.site \in {"empty_pool", "feasibility",
                                           "no_remaining", "no_cheaper_swap"}

\* the bucket's min_count as the engine reads it: None or negative is 0
EffectiveMin(bucket) ==
    IF bucket.min_count = None \/ bucket.min_count[1] < 0 THEN 0
    ELSE bucket.min_count[1]

\* the cheapest k entries of the pool (all of it when it has fewer) cost
\* more than budget
CheapestExceed(pool, k, budget) ==
    LET n == IF k <= Len(pool) THEN k ELSE Len(pool)
    IN  \A S \in SUBSET Range(pool) : Cardinality(S) = n => SetValueSum(S) > budget

\* the call raised GeneratorError naming the bucket it is in
RaisedForBucket(c) ==
    /\ c.pc = "raised"
    /\ c.err.kind = "GeneratorError"
    /\ c.b \in DOMAIN c.config.buckets
    /\ c.err.bucket = Some(c.config.buckets[c.b].name)

ContainsIgnoringCase(type, sub) ==
    \E off \in 0..(Len(type) - Len(sub)) :
      \A i \in DOMAIN sub : LowerChar(type[off + i]) = LowerChar(sub[i])

\* the entry satisfies the rarity, type-substring, value-bound and
\* attunement filters of the bucket
Conforms(bucket, e) ==
    /\ \/ bucket.allowed_rarities = None
       \/ bucket.allowed_rarities[1] = <<>>
       \/ \E i \in DOMAIN bucket.allowed_rarities[1] :
            bucket.allowed_rarities[1][i] = e.rarity
    /\ \/ bucket.type_contains_any = None
       \/ bucket.type_contains_any[1] = <<>>
       \/ \E i \in DOMAIN bucket.type_contains_any[1] :
            ContainsIgnoringCase(e.type, bucket.type_contains_any[1][i])
    /\ bucket.min_value # None =>
         (e.value # None /\ e.value[1] >= bucket.min_value[1])
    /\ bucket.max_value # None =>
         (e.value # None /\ e.value[1] <= bucket.max_value[1])
    /\ bucket.attunement_required # None =>
         e.attunement_required = bucket.attunement_required[1]

\* the count range of a bucket: as the claims read it (max_count >= 0 is a
\* bound) when strict, as the engine reads it (max_count > 0) otherwise
InCountRange(bucket, n, strict) ==
    /\ n >= EffectiveMin(bucket)
    /\ (bucket.max_count # None
        /\ (IF strict THEN bucket.max_count[1] >= 0 ELSE bucket.max_count[1] > 0))
         => n <= bucket.max_count[1]

\* some choice of conforming entries for buckets i.. meets every count range
\* and every set global bound; when strict no entry is taken twice at all,
\* otherwise only buckets with prefer_unique active avoid taken entries
RECURSIVE Satisfiable(_, _, _, _, _, _)
Satisfiable(config, i, taken, count, value, strict) ==
    IF i > Len(config.buckets)
    THEN /\ config.max_items = None \/ count <= config.max_items[1]
         /\ config.min_items = None \/ count >= config.min_items[1]
         /\ config.max_total_value = None \/ value <= config.max_total_value[1]
         /\ config.min_total_value = None \/ value >= config.min_total_value[1]
    ELSE LET bucket == config.buckets[i]
             unique == strict \/ config.global_prefer_unique \/ bucket.prefer_unique
             pool == {e \in Catalog : Conforms(bucket, e)
                                      /\ (unique => e.id \notin taken)}
         IN  \E S \in SUBSET pool :
               /\ InCountRange(bucket, Cardinality(S), strict)
               /\ Satisfiable(config, i + 1, taken \cup {e.id : e \in S},
                              count + Cardinality(S), value + SetValueSum(S),
                              strict)

C8_FilterConformance ==
    \A t \in Threads :
      /\ \A k \in DOMAIN calls[t].results :
           Conforms(calls[t].config.buckets[calls[t].contrib[k]],
                    calls[t].results[k])
      /\ \A k \in DOMAIN calls[t].picked :
           Conforms(calls[t].config.buckets[calls[t].b], calls[t].picked[k])
      /\ \A k \in DOMAIN calls[t].selected :
           Conforms(calls[t].config.buckets[calls[t].b], calls[t].selected[k])

\* a returned list with an item the repair loop swapped into a bucket that
\* filters on attunement and an item of a bucket that filters on rarity,
\* type and nothing else
C8_Witness ==
    \E t \in Threads :
      /\ calls[t].pc = "returned"
      /\ \E i \in calls[t].repaired :
           /\ calls[t].config.buckets[i].attunement_required # None
           /\ ContribCount(calls[t], i) > 0
      /\ \E i \in DOMAIN calls[t].config.buckets :
           /\ calls[t].config.buckets[i].type_contains_any \notin {None, Some(<<>>)}
           /\ calls[t].config.buckets[i].allowed_rarities \notin {None, Some(<<>>)}
           /\ ContribCount(calls[t], i) > 0

\* C9: two calls made one after the other with the same config, a non-null
\* random_seed and the same catalog give the caller the same items in the
\* same order, or the same error, whatever calls and draws came between.
C9_SeededCallsAgree ==
    \A i, j \in DOMAIN history :
      (history[i][1] = history[j][1] /\ history[i][1].random_seed # None) =>
        history[i][2] = history[j][2]

\* two seeded calls with the same config returned two items or more, with a
\* call of another config that also returned items between them
C9_Witness ==
    \E i, k, j \in DOMAIN history :
      /\ i < k /\ k < j
      /\ history[i][1] = history[j][1]
      /\ history[i][1].random_seed # None
      /\ history[j][2].ok
      /\ Len(history[j][2].items) >= 2
      /\ history[k][1] # history[i][1]
      /\ history[k][2].ok

C11_ErrorAbortsCall ==
    [][\A t \in Threads :
         calls[t].pc = "raised" =>
           \/ calls'[t] = calls[t]
           \/ /\ calls'[t] = IdleCall
              /\ history' = Append(history,
                     <<calls[t].config,
                       [ok |-> FALSE, items |-> <<>>, err |-> calls[t].err]>>)]_vars

\* a call ended by a GeneratorError of its second bucket, after a first
\* bucket that had to contribute an item
C11_Witness ==
    \E i \in DOMAIN history :
      /\ ~history[i][2].ok
      /\ history[i][2].err.kind = "GeneratorError"
      /\ Len(history[i][1].buckets) = 2
      /\ history[i][2].err.bucket = Some(history[i][1].buckets[2].name)
      /\ BucketMinCount(history[i][1].buckets[1]) >= 1
      /\ history[i][2].items = <<>>

\* the bucket c is in starts with the global item cap already filled
CapFilledBefore(c) ==
    /\ c.pc \notin {"idle", "bucket"}
    /\ c.b \in DOMAIN c.config.buckets
    /\ c.config.max_items # None
    /\ Len(c.results) = c.config.max_items[1]
    /\ BucketMinCount(c.config.buckets[c.b]) >= 1

UniqueLinks(rows) ==
    /\ \A r1, r2 \in rows :
         (r1.source_link # None /\ r1.source_link = r2.source_link) => r1 = r2
    /\ \A r \in rows :
         r.source_link # None =>
           r.source_link[1] # <<>> /\ Strip(r.source_link[1]) = r.source_link[1]

\* the rows that carry the link of the item being written
LinkRows(table, t) ==
    {r \in View(table, t) : LinkOf(t.data) # <<>>
                            /\ r.source_link = Some(LinkOf(t.data))}

\* C13: whatever upsert_entry and bulk_upsert calls were made, the table
\* holds at most one entry per non-empty source_link; an item whose link is
\* already stored is written onto that entry and adds no row, and
\* upsert_entry returns that entry.
C13_UpsertByLink ==
    [][/\ UniqueLinks(db')
       /\ (tx.pc = "write" /\ tx' # tx /\ LinkRows(db, tx) # {}) =>
            /\ tx'.pc # "raised"
            /\ \E r \in LinkRows(db, tx) : tx'.obj_id = Some(r.id)
            /\ RowIds(View(db', tx')) \subseteq RowIds(View(db, tx))
       /\ (tx.pc = "done" /\ tx.op = "upsert_entry" /\ tx'.pc = "idle") =>
            /\ ret'.ok
            /\ \E r \in db : ret'.saved = {r} /\ Some(r.id) = tx.obj_id]_vars

\* upsert_entry returned the entry of a link that was stored before, with
\* new values written onto it, the table holding two entries or more
C13_Witness ==
    /\ ret.op = "upsert_entry"
    /\ ret.ok
    /\ ret.link # <<>>
    /\ ret.inserted = 0
    /\ \E r \in ret.saved : r.source_link = Some(ret.link) /\ r.description = Some(sB)
    /\ Cardinality(db) >= 2

\* the stored rows the item being written is applied to
WriteTargets(table, t) ==
    IF t.target # None THEN {r \in View(table, t) : r.id = t.target[1]}
    ELSE LinkRows(table, t)

\* the caller's value for the field is absent, None, empty or whitespace
Blank(raw, f) ==
    f \notin DOMAIN raw \/ raw[f] = None \/ Strip(raw[f][1]) = <<>>

\* C14: a write onto an existing entry keeps the stored value of every
\* string field (name, type, rarity, attunement_criteria, description,
\* image_url) whose incoming value is absent, empty or whitespace-only, and
\* keeps value, attunement_required and value_updated when the incoming
\* value is absent or None.
C14_NoClobber ==
    [][(tx.pc = "write" /\ tx' # tx) =>
         \A old \in WriteTargets(db, tx) :
           \E new \in View(db', tx') :
             /\ new.id = old.id
             /\ \A f \in AssignedFields :
                  Blank(Head(tx.items), f) => new[f] = old[f]
             /\ \A f \in {"value", "attunement_required", "value_updated"} :
                  ~Given(Head(tx.items), f) => new[f] = old[f]]_vars

\* upsert_entry returned an entry that took the new description and
\* value_updated of an item whose name was empty, whose image_url and
\* attunement_criteria were whitespace and whose rarity, value and
\* attunement_required were None or absent, and kept its own for those
C14_Witness ==
    /\ ret.op = "upsert_entry"
    /\ ret.ok
    /\ \E r \in ret.saved :
         /\ r.description = Some(sB)
         /\ r.value_updated
         /\ r.name = Some(sA)
         /\ r.type = Some(sB)
         /\ r.rarity = Some(sA)
         /\ r.attunement_criteria = Some(sA)
         /\ r.image_url = Some(sA)
         /\ r.value = Some(5)
         /\ r.attunement_required

\* C15: bulk_upsert returns (created, updated) with created the number of
\* rows the call inserted, updated the number of items applied to a row that
\* existed already (rows of earlier items of the batch included), and
\* created + updated the number of items.
C15_BulkCounts ==
    (ret.op = "bulk_upsert" /\ ret.ok) =>
      /\ ret.created = ret.inserted
      /\ ret.created + ret.updated = ret.n

\* one call under a value cap; a thread inside the repair loop keeps
\* executing it
InitLive == InitWith("budgeted", [t \in Threads |-> IF t = 1 THEN 1 ELSE 0])

SpecLive == InitLive /\ [][Next]_vars /\ \A t \in Threads : WF_vars(Repair(t))

\* C16: a pass of the repair loop either raises GeneratorError or makes a
\* swap that strictly lowers the total; the loop goes on only while the
\* total is above remaining_budget and returns a selection within it, and
\* every call that enters the loop leaves it.
C16_RepairTerminates ==
    /\ [][\A t \in Threads :
            (calls[t].pc = "repair" /\ calls'[t] # calls[t]) =>
              \/ /\ calls'[t].pc = "raised"
                 /\ calls'[t].err.kind = "GeneratorError"
              \/ /\ calls'[t].pc = "repair"
                 /\ calls'[t].total < calls[t].total
                 /\ calls'[t].total > calls[t].remaining_budget[1]
              \/ /\ calls'[t].pc = "extend"
                 /\ SumVal(calls'[t].picked) < calls[t].total
                 /\ SumVal(calls'[t].picked) <= calls[t].remaining_budget[1]]_vars
    /\ \A t \in Threads :
         (calls[t].pc = "repair") ~> (calls[t].pc # "repair")

\* the loop is about to make a further pass after a swap that left the
\* total above the budget
C16_Witness ==
    \E t \in Threads :
      /\ calls[t].pc = "repair"
      /\ calls[t].swaps >= 1
      /\ calls[t].total > calls[t].remaining_budget[1]

\* the call is at one of the failure exits of the repair loop
RepairFailed(c) ==
    c.pc = "raised" /\ c.err.site \in {"no_remaining", "no_cheaper_swap"}

FailedFeasibility(h, name) ==
    /\ ~h[2].ok
    /\ h[2].err.site = "feasibility"
    /\ h[2].err.bucket = Some(name)

FirstBucketRefused(h) ==
    /\ ~h[2].ok
    /\ h[2].err.site \in {"empty_pool", "feasibility"}
    /\ h[2].err.bucket = Some(h[1].buckets[1].name)

LargestAffordable(pool, budget) ==
    CHOOSE k \in 0..Len(pool) :
      /\ AffordableSubset(pool, k, budget)
      /\ \A m \in (k + 1)..Len(pool) : ~AffordableSubset(pool, m, budget)

\* min(available, max_count when it is set and not negative,
\*     max_items - running count clamped at 0, budget_cap)
StatedFeasibleMax(c, budget_cap) ==
    LET bucket    == c.config.buckets[c.b]
        available == Len(c.filtered)
        by_count  == IF bucket.max_count = None \/ bucket.max_count[1] < 0
                     THEN available ELSE Min2(available, bucket.max_count[1])
        by_slots  == IF c.config.max_items = None THEN by_count
                     ELSE Min2(by_count,
                               Max2(0, c.config.max_items[1] - Len(c.results)))
    IN  IF c.remaining_budget = None THEN by_slots
        ELSE Min2(by_slots, budget_cap)

\* the frame of a bucket whose feasibility check has been evaluated
PastStepC(c) ==
    \/ c.pc \in {"target", "sample", "repair"}
    \/ c.pc = "raised" /\ c.err.site = "feasibility"

C20_TargetCount ==
    /\ [][\A t \in Threads :
            LET c == calls[t]
                n == calls'[t]
            IN  /\ (c.pc = "target" /\ n # c) =>
                     \/ /\ n.pc = "sample"
                        /\ n.target_count \in c.min_count..c.feasible_max
                        /\ n.target_count > 0
                     \/ /\ n.pc = "extend"
                        /\ c.min_count = 0
                        /\ n.picked = <<>>
                /\ (c.pc \in {"sample", "repair"} /\ n # c) =>
                     \/ n.pc \in {"sample", "repair"} /\ n.target_count = c.target_count
                     \/ /\ n.pc = "extend"
                        /\ Len(n.picked) = c.target_count
                        /\ Cardinality(Ids(n.picked)) = c.target_count
                        /\ Range(n.picked) \subseteq Range(c.filtered)]_vars
    /\ [](\A t \in Threads :
            (calls[t].pc = "target" /\ rng = None) =>
              \A k \in calls[t].min_count..calls[t].feasible_max :
                ENABLED (/\ DrawTarget(t)
                         /\ IF k = 0 THEN calls'[t].pc = "extend"
                            ELSE calls'[t].target_count = k))

\* a bucket with min_count 1 and a feasible_max of 2 or more returned 2 items
C20_Witness ==
    \E t \in Threads :
      LET c == calls[t]
      IN  /\ c.pc = "extend"
          /\ c.config.buckets[c.b].min_count = Some(1)
          /\ c.config.buckets[c.b].max_count = Some(2)
          /\ Len(c.picked) = 2


\* the running totals of the call are within the global maxima that are set
WithinCaps(c) ==
    /\ c.config.max_items = None \/ Len(c.results) <= c.config.max_items[1]
    /\ c.config.max_total_value = None
         \/ ValueSum(c.results) <= c.config.max_total_value[1]

\* C21: the values of the catalog being non-negative, after every bucket
\* the running count is at most max_items and the running value sum at
\* most max_total_value (where set), and the final max_items and
\* max_total_value checks of run_generator never raise.
C21_CapsNeverExceeded ==
    \A t \in Threads :
      LET c == calls[t]
      IN  /\ \A e \in Catalog : val(e) >= 0
          /\ c.pc \in {"bucket", "validate", "returned"} => WithinCaps(c)
          /\ c.pc = "extend" => WithinCaps(Extend(c))
          /\ c.pc = "raised" => c.err.site \notin {"max_items", "max_total_value"}

\* the second of two buckets has completed with both caps met exactly
C21_Witness ==
    \E t \in Threads :
      LET c == calls[t]
      IN  /\ c.pc = "validate"
          /\ Len(c.config.buckets) = 2
          /\ c.config.max_items = Some(2)
          /\ c.config.max_total_value = Some(30)
          /\ Len(c.results) = 2
          /\ ValueSum(c.results) = 30
          /\ c.contrib = <<1, 2>>


C23_FilterAccepted ==
    /\ \A t \in Threads :
         ~(calls[t].pc = "raised" /\ calls[t].err.site = "EntryFilters")
    /\ \A i \in DOMAIN history : history[i][2].err.site # "EntryFilters"


\* the entry passes the fine filter of the bucket: a type substring matches
\* ignoring case when substrings are given, and the value is known and
\* within the bounds when a bound is set
PassesFineFilter(bucket, e) ==
    /\ \/ bucket.type_contains_any = None
       \/ bucket.type_contains_any[1] = <<>>
       \/ \E i \in DOMAIN bucket.type_contains_any[1] :
            ContainsIgnoringCase(e.type, bucket.type_contains_any[1][i])
    /\ (bucket.min_value # None \/ bucket.max_value # None) => e.value # None
    /\ bucket.min_value # None => e.value[1] >= bucket.min_value[1]
    /\ bucket.max_value # None => e.value[1] <= bucket.max_value[1]

\* the pool the bucket the call is in should work on
StatedPool(c) ==
    LET bucket == c.config.buckets[c.b]
        coarse == Range(search(bucket.allowed_rarities, bucket.attunement_required))
        fine   == {e \in coarse : PassesFineFilter(bucket, e)}
    IN  IF c.config.global_prefer_unique \/ bucket.prefer_unique
        THEN {e \in fine : e.id \notin c.used_ids}
        ELSE fine

\* C24: the filtered pool of a bucket holds exactly the entries of the
\* coarse pool that match a type substring ignoring case (when substrings
\* are given) and have a known value within [min_value, max_value] (when a
\* bound is set), without the entries whose id is in used_ids when the
\* bucket's or the global prefer_unique is true; each entry once.
C24_FilteredPool ==
    /\ [](\A t \in Threads :
            HasPool(calls[t]) =>
              /\ Range(calls[t].filtered) = StatedPool(calls[t])
              /\ Cardinality(StatedPool(calls[t])) = Len(calls[t].filtered))
    /\ [][\A t \in Threads :
            (calls[t].pc = "bucket" /\ calls'[t].pc = "extend") =>
              StatedPool(calls[t]) = {}]_vars

\* a second bucket that asks for uniqueness works on a pool from which an entry
\* the first bucket used was taken out and in which an entry of unknown
\* value was kept, no value bound being set
C24_Witness ==
    \E t \in Threads :
      LET c == calls[t]
          bucket == c.config.buckets[c.b]
      IN  /\ c.pc = "target"
          /\ c.b = 2
          /\ bucket.prefer_unique
          /\ bucket.min_value = None /\ bucket.type_contains_any = None
          /\ c.used_ids # {}
          /\ \E e \in Catalog : e.value = None /\ e \in Range(c.filtered)
          /\ Len(c.filtered) < Cardinality(Catalog)


Mentioned(err) == {m[1] : m \in err.mentions}

\* the item-slot bound is what holds feasible_max of the frame down
SlotLimited(c) ==
    LET slots == RemainingItemSlots(c.config, c.results)
    IN  slots # None /\ slots[1] <= c.feasible_max

\* the budget bound is what holds feasible_max of the frame down
BudgetLimited(c) ==
    /\ c.remaining_budget # None
    /\ BudgetCap(c.filtered, c.remaining_budget[1]) <= c.feasible_max

RECURSIVE ContribFrom(_, _)
ContribFrom(c, i) ==
    IF i > Len(c.config.buckets) THEN 0
    ELSE ContribCount(c, i) + ContribFrom(c, i + 1)

\* C27: the list of a call is the concatenation of the buckets'
\* contributions in declared order: an item of an earlier bucket stands
\* before every item of a later bucket, each contribution is appended in
\* the order it was selected, and the length of the list is the sum of the
\* contribution counts.
C27_BucketOrder ==
    /\ [](\A t \in Threads :
            LET c == calls[t]
            IN  /\ Len(c.contrib) = Len(c.results)
                /\ \A j, k \in DOMAIN c.contrib : j < k => c.contrib[j] <= c.contrib[k]
                /\ Len(c.results) = ContribFrom(c, 1))
    /\ [][\A t \in Threads :
            (calls[t].pc = "extend" /\ calls'[t] # calls[t]) =>
              calls'[t].results = calls[t].results \o calls[t].picked]_vars
    /\ [][\A t \in Threads :
            (calls[t].pc = "returned" /\ calls'[t] # calls[t]) =>
              history'[Len(history')][2].items = calls[t].results]_vars

\* a returned list of three items, one of the first bucket and two of the
\* second
C27_Witness ==
    \E i \in DOMAIN history :
      /\ history[i][2].ok
      /\ Len(history[i][2].items) = 3
      /\ Len(history[i][1].buckets) = 2
      /\ history[i][1].buckets[1].max_count = Some(1)
      /\ history[i][1].buckets[2].min_count = Some(2)


\* C28: at the start of every bucket of a call used_ids is the set of the
\* identifiers of the items the preceding buckets selected (empty before
\* the first bucket); a bucket that raises or contributes no item leaves
\* used_ids as it was.
C28_UsedIdsTrackResults ==
    /\ [](\A t \in Threads :
            LET c == calls[t]
            IN  /\ c.pc = "bucket" => c.used_ids = Ids(c.results)
                /\ (c.pc = "bucket" /\ c.b = 1) => c.used_ids = {}
                /\ c.pc = "extend" => c.used_ids = Ids(c.results) \cup Ids(c.picked))
    /\ [][\A t \in Threads :
            LET c == calls[t]
                n == calls'[t]
            IN  (/\ c.pc \in {"bucket", "target", "sample", "repair"}
                 /\ \/ n.pc = "raised"
                    \/ n.pc = "extend" /\ n.picked = <<>>) =>
                  n.used_ids = c.used_ids]_vars

\* the second bucket of a call starts with the two identifiers the first
\* bucket selected
C28_Witness ==
    \E t \in Threads :
      LET c == calls[t]
      IN  /\ c.pc = "bucket"
          /\ c.b = 2
          /\ Len(c.results) = 2
          /\ Cardinality(c.used_ids) = 2
          /\ ~c.config.buckets[1].prefer_unique
          /\ ~c.config.global_prefer_unique


\* C29: at every pass of the budget repair loop selected holds exactly
\* target_count items of pairwise distinct ids, selected and remaining are
\* disjoint and make up the filtered pool together, and total is the value
\* sum of selected (unknown value counted as 0); the selection the loop
\* ends with has the same shape.
C29_RepairLoopState ==
    /\ [](\A t \in Threads :
            LET c == calls[t]
            IN  c.pc = "repair" =>
                  /\ Len(c.selected) = c.target_count
                  /\ Cardinality(Ids(c.selected)) = c.target_count
                  /\ c.selected_ids = Ids(c.selected)
                  /\ Range(c.selected) \cap Range(c.remaining) = {}
                  /\ Range(c.selected) \cup Range(c.remaining) = Range(c.filtered)
                  /\ Len(c.selected) + Len(c.remaining) = Len(c.filtered)
                  /\ c.total = ValueSum(c.selected))
    /\ [][\A t \in Threads :
            LET c == calls[t]
                n == calls'[t]
            IN  (c.pc = "repair" /\ n.pc = "extend") =>
                  /\ Len(n.picked) = c.target_count
                  /\ Cardinality(Ids(n.picked)) = c.target_count
                  /\ Range(n.picked) \subseteq Range(c.filtered)
                  /\ ValueSum(n.picked) <= c.remaining_budget[1]
                  /\ ValueSum(n.picked) < c.total]_vars

\* the loop is at its second pass over a selection of two items
C29_Witness ==
    \E t \in Threads :
      LET c == calls[t]
      IN  /\ c.pc = "repair"
          /\ c.swaps = 1
          /\ c.target_count = 2
          /\ Len(c.remaining) >= 1


\* the bucket asks for more items than its positive max_count allows
Contradictory(bucket) ==
    /\ bucket.min_count # None /\ bucket.max_count # None
    /\ bucket.max_count[1] > 0
    /\ bucket.max_count[1] < bucket.min_count[1]

====
